---- MODULE Spec2Model ----
(***************************************************************************)
(* A model of the ip-command crate (src/src/lib.rs): the IpCommand client, *)
(* the resolution of the ip binary on PATH, the execution of one child     *)
(* process per command invocation under a timeout, the ConsoleStream over  *)
(* the output of a streaming child, and the serialization of link and      *)
(* address configurations into arguments (src/src/command).                *)
(***************************************************************************)
EXTENDS Integers, Sequences, FiniteSets, TLC

VARIABLES
    pathEnv,        \* the PATH environment variable: unset, or a list of directories
    fs,             \* the file system: what each directory holds under each name
    client,         \* the IpCommand value (command, timeout, namespace)
    derived,        \* the IpCommand value the last with_namespace returned
    newResult,      \* what IpCommand::new returned
    pc,             \* where the caller's current invocation stands
    call,           \* the invocation in progress: operation, args, combined_output
    procs,          \* every child process spawned so far, by pid
    spawnAttempts,  \* spawn() calls made by the invocation in progress
    stdoutBuf,      \* bytes the child of the invocation wrote to its stdout pipe
    stderrBuf,      \* bytes the child of the invocation wrote to its stderr pipe
    timer,          \* the tokio timeout of the invocation
    result,         \* what the invocation returned
    nCalls,         \* invocations started so far
    tasks,          \* concurrent command invocations, one per task
    childIo,        \* per child of a task: what it wrote and its exit status
    stream,         \* the ConsoleStream the caller obtained last
    pipes,          \* the stdout and stderr pipes of that stream's child
    items,          \* what the polls of that stream have yielded so far
    lastPoll        \* what the last poll of that stream returned

envVars == <<pathEnv, fs>>
invocationVars == <<pc, call, spawnAttempts, stdoutBuf, stderrBuf, timer, result,
                    nCalls>>
callVars == <<pc, call, procs, spawnAttempts, stdoutBuf, stderrBuf, timer, result,
              nCalls>>
taskVars == <<tasks, childIo>>
streamVars == <<stream, pipes, items, lastPoll>>
vars == <<pathEnv, fs, client, derived, newResult, pc, call, procs, spawnAttempts,
          stdoutBuf, stderrBuf, timer, result, nCalls, tasks, childIo,
          stream, pipes, items, lastPoll>>

(***************************************************************************)
(* Bounds of the model.                                                    *)
(***************************************************************************)
MaxPathLen == 3     \* directories listed in PATH
MaxOut == 2         \* bytes a child writes to its stdout
MaxErr == 1         \* bytes a child writes to its stderr
MaxCalls == 2       \* invocations made on one client

Dirs == {"/usr/local/bin", "/usr/sbin", "/usr/bin"}
Names == {"ip", "stdbuf"}
Kinds == {"absent", "file", "dir"}

\* Option<T>
None == [some |-> FALSE, val |-> <<>>]
Some(x) == [some |-> TRUE, val |-> x]

(***************************************************************************)
(* The environment IpCommand::path reads.                                  *)
(***************************************************************************)
RECURSIVE SeqsUpTo(_, _)
SeqsUpTo(S, n) ==
    IF n = 0 THEN {<<>>}
    ELSE LET shorter == SeqsUpTo(S, n - 1)
         IN shorter \cup {Append(s, x) : s \in {t \in shorter : Len(t) = n - 1}, x \in S}

PathUnset == [set |-> FALSE, dirs |-> <<>>]
PathEnvs == {PathUnset} \cup {[set |-> TRUE, dirs |-> d] : d \in SeqsUpTo(Dirs, MaxPathLen)}
FileSystems == [Dirs -> [Names -> Kinds]]

\* PathBuf::join
join(dir, name) == <<dir, name>>

\* Path::is_file
is_file(full_path) == fs[full_path[1]][full_path[2]] = "file"

\* env::split_paths(..).filter_map(..).next()
RECURSIVE first_match(_, _)
first_match(dirs, name) ==
    IF dirs = <<>> THEN None
    ELSE LET full_path == join(Head(dirs), name)
         IN IF is_file(full_path) THEN Some(full_path)
            ELSE first_match(Tail(dirs), name)

\* (a variant of path that keeps the last match)
RECURSIVE last_match(_, _)
last_match(dirs, name) ==
    IF dirs = <<>> THEN None
    ELSE LET full_path == join(dirs[Len(dirs)], name)
         IN IF is_file(full_path) THEN Some(full_path)
            ELSE last_match(SubSeq(dirs, 1, Len(dirs) - 1), name)

path_last_match(name) ==
    IF ~pathEnv.set THEN None ELSE last_match(pathEnv.dirs, name)

\* IpCommand::path
path(name) ==
    IF ~pathEnv.set THEN None ELSE first_match(pathEnv.dirs, name)

(***************************************************************************)
(* IpCommand                                                               *)
(***************************************************************************)
\* (a variant that takes the number for seconds)
DefaultTimeout_in_seconds == 5000 \div 1000

\* Duration::from_millis(5_000)
DefaultTimeoutMs == 5000

NoClient == [built |-> FALSE, command |-> <<>>, timeout |-> 0, namespace |-> None]

\* (self: the client the operation was called on)
NoCall == [op |-> "none", self |-> NoClient, args |-> <<>>, combined_output |-> FALSE,
           spawn |-> "none"]
\* (childFirst: the child exited before the duration elapsed)
NoTimer == [armed |-> FALSE, duration |-> 0, elapsed |-> FALSE, childFirst |-> FALSE]
NoResult == [kind |-> "none", error |-> "", value |-> <<>>, stdout |-> <<>>,
             stderr |-> <<>>, stream |-> 0]

\* IpCommand::new
New ==
    /\ ~client.built
    /\ newResult = "none"
    /\ LET found == path("ip")
       IN IF found.some
          THEN /\ client' = [built |-> TRUE, command |-> found.val,
                             timeout |-> DefaultTimeoutMs, namespace |-> None]
               /\ newResult' = "Ok"
          ELSE /\ client' = client
               /\ newResult' = "CommandNotFoundError"
    /\ UNCHANGED <<envVars, streamVars, taskVars, derived, callVars>>

\* (a variant that puts the namespace after the caller's arguments)
concat_args_netns_last(self, args) ==
    <<"-json">>
    \o args
    \o (IF self.namespace.some THEN <<"-netns", self.namespace.val>> ELSE <<>>)

\* IpCommand::concat_args
concat_args(self, args) ==
    <<"-json">>
    \o (IF self.namespace.some THEN <<"-netns", self.namespace.val>> ELSE <<>>)
    \o args

Namespaces == {"blue", "red"}

\* (a variant that resets the timeout of the new client)
with_namespace_resets_timeout(self, namespace) ==
    [self EXCEPT !.namespace = Some(namespace), !.timeout = 0]

\* IpCommand::with_namespace: a clone of self with the namespace replaced
with_namespace(self, namespace) == [self EXCEPT !.namespace = Some(namespace)]

\* The clients the caller holds: the one IpCommand::new returned and the one
\* the last with_namespace returned.
Clients == {c \in {client, derived} : c.built}

\* The caller calls with_namespace on a client it holds and keeps the result.
WithNamespace(self, namespace) ==
    /\ self \in Clients
    /\ pc = "idle"
    /\ derived' = with_namespace(self, namespace)
    /\ UNCHANGED <<envVars, streamVars, taskVars, client, newResult, callVars>>

(***************************************************************************)
(* Text decoding: String::from_utf8 validates the bytes and, when they are *)
(* valid UTF-8, wraps the same bytes as a String.                          *)
(***************************************************************************)
Bytes == {97, 195, 169}     \* 'a', and the two bytes of U+00E9

IsCont(b, lo, hi) == b >= lo /\ b <= hi

\* core::str::run_utf8_validation
RECURSIVE utf8_valid(_)
utf8_valid(v) ==
    IF v = <<>> THEN TRUE
    ELSE LET first == v[1]
             n == Len(v)
         IN IF first < 128 THEN utf8_valid(Tail(v))
            ELSE IF first >= 194 /\ first <= 223
            THEN /\ n >= 2
                 /\ IsCont(v[2], 128, 191)
                 /\ utf8_valid(SubSeq(v, 3, n))
            ELSE IF first >= 224 /\ first <= 239
            THEN /\ n >= 3
                 /\ IsCont(v[2], IF first = 224 THEN 160 ELSE 128,
                                 IF first = 237 THEN 159 ELSE 191)
                 /\ IsCont(v[3], 128, 191)
                 /\ utf8_valid(SubSeq(v, 4, n))
            ELSE IF first >= 240 /\ first <= 244
            THEN /\ n >= 4
                 /\ IsCont(v[2], IF first = 240 THEN 144 ELSE 128,
                                 IF first = 244 THEN 143 ELSE 191)
                 /\ IsCont(v[3], 128, 191)
                 /\ IsCont(v[4], 128, 191)
                 /\ utf8_valid(SubSeq(v, 5, n))
            ELSE FALSE

\* String::from_utf8: Ok(String) holding the same bytes, or Err(FromUtf8Error)
from_utf8(v) == IF utf8_valid(v) THEN [ok |-> TRUE, string |-> v]
                ELSE [ok |-> FALSE, string |-> <<>>]

(***************************************************************************)
(* Child processes.                                                        *)
(***************************************************************************)
\* Command::kill_on_drop: the builder's default, which the crate never changes
kill_on_drop == FALSE

\* Command::new(..).args(..).stdin(null).stdout(piped).stderr(piped).spawn(), on success
\* (a variant that lets the child inherit the caller's stdin)
spawned_child_inherits_stdin(program, args, owner, id) ==
    [program |-> program, args |-> args,
     stdin |-> "inherit", stdout |-> "piped", stderr |-> "piped",
     state |-> "running", status |-> 0, handle |-> owner,
     call |-> id]

\* (call: the invocation that spawned it)
spawned_child(program, args, owner, id) ==
    [program |-> program, args |-> args,
     stdin |-> "null", stdout |-> "piped", stderr |-> "piped",
     state |-> "running", status |-> 0, handle |-> owner,
     call |-> id]

\* What spawn() can do: the operating system may refuse it at any time (the
\* binary is gone, permission is denied, no process can be created).
spawn_outcomes(program) == {"spawned", "failed"}

\* wait(2) by the runtime: the exit status is taken and the process is gone.
reaped(p) == [p EXCEPT !.state = "reaped", !.status = 0, !.handle = "dropped"]

\* Drop for tokio::process::Child: a child that has exited is reaped; one that
\* is running is killed only under kill_on_drop, and is otherwise left to run.
drop_child(p) ==
    IF p.state = "exited" THEN reaped(p)
    ELSE [p EXCEPT !.handle = "dropped",
                   !.state = IF kill_on_drop THEN "killed" ELSE @]

CurrentPid == Len(procs)

ArgLists == {<<"netns", "list">>}

Err(name) == [NoResult EXCEPT !.kind = "Err", !.error = name]

\* (a variant that reports a failed spawn under the wait's error)
SpawnErrorContext_as_CommandError == Err("CommandError")

\* .spawn().context(SpawnError {})?
SpawnErrorContext == Err("SpawnError")

\* IpCommand::command up to its await: concat_args and the spawn.
CommandStart(self, args, combined_output) ==
    /\ self \in Clients
    /\ pc = "idle"
    /\ nCalls < MaxCalls
    /\ nCalls' = nCalls + 1
    /\ spawnAttempts' = spawnAttempts + 1
    /\ \E outcome \in spawn_outcomes(self.command) :
          /\ call' = [op |-> "command", self |-> self, args |-> args,
                      combined_output |-> combined_output, spawn |-> outcome]
          /\ IF outcome = "spawned"
             THEN /\ procs' = Append(procs,
                        spawned_child(self.command, concat_args(self, args),
                                      "future", nCalls + 1))
                  /\ timer' = [NoTimer EXCEPT !.armed = TRUE,
                                              !.duration = self.timeout]
                  /\ pc' = "await"
                  /\ result' = result
             ELSE /\ result' = SpawnErrorContext
                  /\ pc' = "returned"
                  /\ UNCHANGED <<procs, timer>>
    /\ UNCHANGED <<envVars, streamVars, taskVars, derived, client, newResult,
                   stdoutBuf, stderrBuf>>

\* The child of the invocation writes one byte to its stdout.
ChildWriteStdout(b) ==
    /\ pc = "await"
    /\ procs[CurrentPid].state = "running"
    /\ Len(stdoutBuf) < MaxOut
    /\ stdoutBuf' = Append(stdoutBuf, b)
    /\ UNCHANGED <<envVars, streamVars, taskVars, derived, client, newResult, pc, call,
                   procs, spawnAttempts, stderrBuf, timer, result, nCalls>>

\* The child of the invocation writes one byte to its stderr.
ChildWriteStderr(b) ==
    /\ pc = "await"
    /\ procs[CurrentPid].state = "running"
    /\ Len(stderrBuf) < MaxErr
    /\ stderrBuf' = Append(stderrBuf, b)
    /\ UNCHANGED <<envVars, streamVars, taskVars, derived, client, newResult, pc, call,
                   procs, spawnAttempts, stdoutBuf, timer, result, nCalls>>

ExitStatuses == {0, 1}

\* A running process exits; its pipes reach end-of-file. (A process whose
\* handle was dropped is followed no further.)
ChildExit(pid, status) ==
    /\ pid \in 1..Len(procs)
    /\ procs[pid].state = "running"
    /\ procs[pid].handle # "dropped"
    /\ procs' = [procs EXCEPT ![pid].state = "exited", ![pid].status = status]
    /\ timer' = IF pc = "await" /\ pid = CurrentPid /\ ~timer.elapsed
                THEN [timer EXCEPT !.childFirst = TRUE] ELSE timer
    /\ UNCHANGED <<envVars, streamVars, taskVars, derived, client, newResult, pc, call,
                   spawnAttempts, stdoutBuf, stderrBuf, result, nCalls>>

\* The duration given to tokio::time::timeout passes.
TimerElapse ==
    /\ pc = "await"
    /\ timer.armed
    /\ ~timer.elapsed
    /\ timer' = [timer EXCEPT !.elapsed = TRUE]
    /\ UNCHANGED <<envVars, streamVars, taskVars, derived, client, newResult, pc, call,
                   procs, spawnAttempts, stdoutBuf, stderrBuf, result, nCalls>>

\* Child::wait_with_output is ready with an Output: the child exited and both
\* pipes are at end-of-file.
wait_ready == procs[CurrentPid].state = "exited"

\* (a variant that puts stderr first)
combined_value_stderr_first(combined_output, stdout, stderr) ==
    IF combined_output THEN stderr \o stdout ELSE stdout

\* The Ok(..) value of IpCommand::command
combined_value(combined_output, stdout, stderr) ==
    IF combined_output THEN stdout \o stderr ELSE stdout

\* (a variant that keeps stderr only when the output is combined)
command_failed_drops_stderr(combined_output, stdout, stderr) ==
    [Err("CommandFailedError") EXCEPT
        !.stdout = stdout, !.stderr = IF combined_output THEN stderr ELSE <<>>]

\* ensure!(result.status.success(), CommandFailedError { stdout, stderr })
command_failed(combined_output, stdout, stderr) ==
    [Err("CommandFailedError") EXCEPT !.stdout = stdout, !.stderr = stderr]

\* IpCommand::command after wait_with_output produced an Output
command_output(status, out, err, combined_output) ==
    LET stdout == from_utf8(out)
        stderr == from_utf8(err)
    IN IF ~stdout.ok \/ ~stderr.ok
       THEN [NoResult EXCEPT !.kind = "panic"]
       ELSE IF status # 0
       THEN command_failed(combined_output, stdout.string, stderr.string)
       ELSE [NoResult EXCEPT !.kind = "Ok",
                !.value = combined_value(combined_output, stdout.string, stderr.string)]

\* IpCommand::command from its await on. tokio's Timeout polls the future
\* first and the timer second; the future is ready with an Output, or with an
\* io::Error (io_error) from reading a pipe or waiting for the child.
CommandResume(io_error) ==
    /\ pc = "await"
    /\ io_error \/ wait_ready \/ timer.elapsed
    /\ IF io_error
       THEN /\ result' = Err("CommandError")
            /\ procs' = [procs EXCEPT ![CurrentPid] = drop_child(@)]
       ELSE IF wait_ready
       THEN /\ result' = command_output(procs[CurrentPid].status, stdoutBuf,
                                        stderrBuf, call.combined_output)
            /\ procs' = [procs EXCEPT ![CurrentPid] = reaped(@)]
       ELSE /\ result' = Err("CommandTimeoutError")
            /\ procs' = [procs EXCEPT ![CurrentPid] = drop_child(@)]
    /\ pc' = "returned"
    /\ timer' = [timer EXCEPT !.armed = FALSE]
    /\ UNCHANGED <<envVars, streamVars, taskVars, derived, client, newResult, call,
                   spawnAttempts, stdoutBuf, stderrBuf, nCalls>>

\* The caller takes the result; the client is ready for the next invocation.
CallerContinues ==
    /\ pc = "returned"
    /\ pc' = "idle"
    /\ call' = NoCall
    /\ result' = NoResult
    /\ spawnAttempts' = 0
    /\ stdoutBuf' = <<>>
    /\ stderrBuf' = <<>>
    /\ timer' = NoTimer
    /\ UNCHANGED <<envVars, streamVars, taskVars, derived, client, newResult, procs,
                   nCalls>>

(***************************************************************************)
(* ConsoleStream: the lines of the child's stdout, merged with the lines of *)
(* its stderr when combined_output is set. A pipe is the bytes the child    *)
(* wrote to it and how many of them the reader has taken; it is at          *)
(* end-of-file once the child is no longer running. The children write      *)
(* ASCII text.                                                              *)
(***************************************************************************)
MaxStreamOut == 3   \* bytes the child of a stream writes to its stdout
MaxStreamErr == 2   \* bytes the child of a stream writes to its stderr
MaxReadErrors == 1  \* reads of a pipe that fail with an io::Error

Newline == 10
\* What the child writes to each pipe: 'a' or 'b', and '\n'
LineBytes == [stdout |-> {97, Newline}, stderr |-> {98, Newline}]
PipeNames == {"stdout", "stderr"}

NoPipe == [written |-> <<>>, read |-> 0]
NoPipes == [stdout |-> NoPipe, stderr |-> NoPipe]

\* (a_first, done: the state of tokio's Merge and of its two Fuse adapters)
NoStream == [open |-> FALSE, pid |-> 0, combined_output |-> FALSE, a_first |-> TRUE,
             done |-> [stdout |-> FALSE, stderr |-> FALSE], ended |-> FALSE]

\* ConsoleStream::new: the stream owns the Child and its pipe readers
ConsoleStream_new(process, combined_output) ==
    [NoStream EXCEPT !.open = TRUE, !.pid = process,
                     !.combined_output = combined_output]

\* Item = tokio::io::Result<String>
OkItem(line) == [ok |-> TRUE, line |-> line]
ErrItem == [ok |-> FALSE, line |-> <<>>]
NoItem == [ok |-> FALSE, line |-> <<-1>>]

unread(pipe) == SubSeq(pipe.written, pipe.read + 1, Len(pipe.written))

\* The position of the first newline of bytes, 0 if it has none.
FirstNewline(bytes) ==
    IF \E i \in 1..Len(bytes) : bytes[i] = Newline
    THEN CHOOSE i \in 1..Len(bytes) :
            bytes[i] = Newline /\ \A j \in 1..(i - 1) : bytes[j] # Newline
    ELSE 0

\* (a variant that yields nothing before the pipe is at end-of-file)
Lines_poll_next_at_eof(pipe, eof, io_error) ==
    IF io_error THEN [kind |-> "item", item |-> ErrItem, read |-> pipe.read]
    ELSE LET bytes == unread(pipe)
             n == FirstNewline(bytes)
         IN IF ~eof THEN [kind |-> "pending", item |-> NoItem, read |-> pipe.read]
            ELSE IF n > 0
            THEN [kind |-> "item", item |-> OkItem(SubSeq(bytes, 1, n - 1)),
                  read |-> pipe.read + n]
            ELSE IF bytes = <<>>
            THEN [kind |-> "none", item |-> NoItem, read |-> pipe.read]
            ELSE [kind |-> "item", item |-> OkItem(bytes), read |-> Len(pipe.written)]

\* (a variant that reports a failed read as the end of the lines)
Lines_poll_next_error_ends(pipe, eof, io_error) ==
    IF io_error THEN [kind |-> "none", item |-> NoItem, read |-> pipe.read]
    ELSE LET bytes == unread(pipe)
             n == FirstNewline(bytes)
         IN IF n > 0
            THEN [kind |-> "item", item |-> OkItem(SubSeq(bytes, 1, n - 1)),
                  read |-> pipe.read + n]
            ELSE IF ~eof
            THEN [kind |-> "pending", item |-> NoItem, read |-> pipe.read]
            ELSE IF bytes = <<>>
            THEN [kind |-> "none", item |-> NoItem, read |-> pipe.read]
            ELSE [kind |-> "item", item |-> OkItem(bytes), read |-> Len(pipe.written)]

\* (a variant that drops what follows the last newline)
Lines_poll_next_drops_tail(pipe, eof, io_error) ==
    IF io_error THEN [kind |-> "item", item |-> ErrItem, read |-> pipe.read]
    ELSE LET bytes == unread(pipe)
             n == FirstNewline(bytes)
         IN IF n > 0
            THEN [kind |-> "item", item |-> OkItem(SubSeq(bytes, 1, n - 1)),
                  read |-> pipe.read + n]
            ELSE IF ~eof
            THEN [kind |-> "pending", item |-> NoItem, read |-> pipe.read]
            ELSE [kind |-> "none", item |-> NoItem, read |-> Len(pipe.written)]

\* Lines<BufReader<..>>::poll_next: a failed read is an Err item; bytes up to
\* a newline are a line, yielded without the newline; at end-of-file what
\* remains is a last line, and nothing remaining is the end of the lines;
\* otherwise the poll is pending.
Lines_poll_next(pipe, eof, io_error) ==
    IF io_error THEN [kind |-> "item", item |-> ErrItem, read |-> pipe.read]
    ELSE LET bytes == unread(pipe)
             n == FirstNewline(bytes)
         IN IF n > 0
            THEN [kind |-> "item", item |-> OkItem(SubSeq(bytes, 1, n - 1)),
                  read |-> pipe.read + n]
            ELSE IF ~eof
            THEN [kind |-> "pending", item |-> NoItem, read |-> pipe.read]
            ELSE IF bytes = <<>>
            THEN [kind |-> "none", item |-> NoItem, read |-> pipe.read]
            ELSE [kind |-> "item", item |-> OkItem(bytes), read |-> Len(pipe.written)]

\* Fuse<Lines<..>>::poll_next: once the lines ended they are polled no more
Fuse_poll_next(done, pipe, eof, io_error) ==
    IF done THEN [kind |-> "none", item |-> NoItem, read |-> pipe.read]
    ELSE Lines_poll_next(pipe, eof, io_error)

\* The order in which Merge polls its two streams
merge_order(a_first) ==
    IF a_first THEN <<"stdout", "stderr">> ELSE <<"stderr", "stdout">>

\* (a variant that ends when the stream polled first ends)
Merge_poll_next_ends_with_first(s, ps, eof, failing) ==
    LET order == merge_order(s.a_first)
        first == Fuse_poll_next(s.done[order[1]], ps[order[1]], eof,
                                failing = order[1])
    IN [kind |-> first.kind, item |-> first.item,
        read |-> [n \in PipeNames |-> IF n = order[1] THEN first.read ELSE ps[n].read],
        done |-> [n \in PipeNames |->
                    s.done[n] \/ (n = order[1] /\ first.kind = "none")],
        polled |-> {order[1]}]

\* Merge::poll_next: the two streams are polled in alternating order, the
\* second only when the first yields no item; the merge ends when both ended.
Merge_poll_next(s, ps, eof, failing) ==
    LET order == merge_order(s.a_first)
        first == Fuse_poll_next(s.done[order[1]], ps[order[1]], eof,
                                failing = order[1])
        second == Fuse_poll_next(s.done[order[2]], ps[order[2]], eof,
                                 failing = order[2])
    IN IF first.kind = "item"
       THEN [kind |-> "item", item |-> first.item,
             read |-> [n \in PipeNames |->
                         IF n = order[1] THEN first.read ELSE ps[n].read],
             done |-> s.done,
             polled |-> {order[1]}]
       ELSE [kind |-> IF second.kind = "item" THEN "item"
                      ELSE IF first.kind = "none" /\ second.kind = "none" THEN "none"
                      ELSE "pending",
             item |-> second.item,
             read |-> [n \in PipeNames |->
                         IF n = order[2] THEN second.read ELSE ps[n].read],
             done |-> [n \in PipeNames |->
                         \/ s.done[n]
                         \/ n = order[1] /\ first.kind = "none"
                         \/ n = order[2] /\ second.kind = "none"],
             polled |-> {order[1], order[2]}]

\* self.inner.poll_next: the merge of both pipes' lines under combined_output,
\* the lines of stdout otherwise
inner_poll_next(s, ps, eof, failing) ==
    IF s.combined_output THEN Merge_poll_next(s, ps, eof, failing)
    ELSE LET only == Lines_poll_next(ps.stdout, eof, failing = "stdout")
         IN [kind |-> only.kind, item |-> only.item,
             read |-> [n \in PipeNames |->
                         IF n = "stdout" THEN only.read ELSE ps[n].read],
             done |-> s.done,
             polled |-> {"stdout"}]

\* The pipes of a child are at end-of-file once it is no longer running.
at_eof(pid) == procs[pid].state # "running"

\* The read errors the polls have yielded so far.
ReadErrors == Cardinality({i \in 1..Len(items) : ~items[i].ok})

\* ConsoleStream::poll_next, polled by the consumer. failing names the pipe
\* whose read fails in this poll with an io::Error, or is "none"; a read of a
\* drained pipe at end-of-file returns 0 and does not fail.
PollNext(failing) ==
    /\ stream.open
    /\ LET eof == at_eof(stream.pid)
           polled == inner_poll_next(stream, pipes, eof, failing)
       IN /\ failing # "none"
                => /\ failing \in polled.polled
                   /\ ~stream.done[failing]
                   /\ ~(eof /\ unread(pipes[failing]) = <<>>)
                   /\ ReadErrors < MaxReadErrors
          /\ lastPoll' = (IF polled.kind = "none" THEN "end" ELSE polled.kind)
          /\ items' = IF polled.kind = "item" THEN Append(items, polled.item) ELSE items
          /\ pipes' = [n \in PipeNames |-> [pipes[n] EXCEPT !.read = polled.read[n]]]
          /\ stream' = [stream EXCEPT
                           !.a_first = IF stream.combined_output THEN ~@ ELSE @,
                           !.done = polled.done,
                           !.ended = @ \/ polled.kind = "none"]
    /\ UNCHANGED <<envVars, taskVars, client, derived, newResult, callVars>>

\* The child of the stream writes one byte to one of its pipes.
StreamChildWrite(name, b) ==
    /\ stream.open
    /\ procs[stream.pid].state = "running"
    /\ Len(pipes[name].written)
          < (IF name = "stdout" THEN MaxStreamOut ELSE MaxStreamErr)
    /\ pipes' = [pipes EXCEPT ![name].written = Append(@, b)]
    /\ UNCHANGED <<envVars, taskVars, client, derived, newResult, callVars, stream,
                   items, lastPoll>>

\* The bytes a pipe holds unread before a write to it blocks
PipeCapacity == 2

\* netns exec of a program that writes as many bytes to its stderr as its
\* argument says, then one line to its stdout, and then sleeps
ExecNoisyArgLists ==
    {<<"netns", "exec", "blue", "noisy", ToString(n)>> : n \in 0..(PipeCapacity + 1)}
StdoutLine == <<97, Newline>>
StderrBytes(args) ==
    CHOOSE n \in 0..(PipeCapacity + 1) : args[Len(args)] = ToString(n)

\* The child of a stream of stdout alone writes its next byte. Both of its
\* pipes were made by Stdio::piped(); ConsoleStream::new takes stdout and
\* leaves stderr in the Child it keeps, open and never read, so the bytes
\* written to stderr stay in the pipe and a write blocks once the pipe is
\* full.
ExecChildWrite ==
    /\ stream.open
    /\ ~stream.combined_output
    /\ procs[stream.pid].state = "running"
    /\ procs[stream.pid].args[Len(procs[stream.pid].args) - 1] = "noisy"
    /\ IF Len(pipes.stderr.written) < StderrBytes(procs[stream.pid].args)
       THEN /\ Len(unread(pipes.stderr)) < PipeCapacity
            /\ pipes' = [pipes EXCEPT !.stderr.written = Append(@, 98)]
       ELSE /\ Len(pipes.stdout.written) < Len(StdoutLine)
            /\ Len(unread(pipes.stdout)) < PipeCapacity
            /\ pipes' = [pipes EXCEPT
                             !.stdout.written =
                                 Append(@, StdoutLine[Len(pipes.stdout.written) + 1])]
    /\ UNCHANGED <<envVars, taskVars, client, derived, newResult, callVars, stream,
                   items, lastPoll>>

\* PathBuf::to_string_lossy
to_string_lossy(full_path) == full_path[1] \o "/" \o full_path[2]

\* (a variant that looks up the wrong binary)
stdbuf_path_of_ip == path("ip")

\* Self::path("stdbuf")
stdbuf_path == path("stdbuf")

\* IpCommand::command_with_streaming_output: the stdbuf lookup, the spawn and
\* ConsoleStream::new; it returns without awaiting the child.
CommandWithStreamingOutput(self, args, combined_output) ==
    /\ self \in Clients
    /\ pc = "idle"
    /\ nCalls < MaxCalls
    /\ nCalls' = nCalls + 1
    /\ LET combined_args == <<"-i0", "-o0", "-e0", to_string_lossy(self.command)>>
                            \o concat_args(self, args)
           stdbuf == stdbuf_path
       IN IF ~stdbuf.some
          THEN /\ result' = Err("CommandNotFoundError")
               /\ UNCHANGED streamVars
               /\ call' = [op |-> "command_with_streaming_output", self |-> self,
                           args |-> args,
                           combined_output |-> combined_output, spawn |-> "none"]
               /\ UNCHANGED <<procs, spawnAttempts>>
          ELSE /\ spawnAttempts' = spawnAttempts + 1
               /\ \E outcome \in spawn_outcomes(stdbuf.val) :
                     /\ call' = [op |-> "command_with_streaming_output", self |-> self,
                                 args |-> args,
                                 combined_output |-> combined_output, spawn |-> outcome]
                     /\ IF outcome = "spawned"
                        THEN /\ procs' = Append(procs,
                                   spawned_child(stdbuf.val, combined_args, "stream",
                                                 nCalls + 1))
                             /\ result' = [NoResult EXCEPT !.kind = "Ok",
                                                           !.stream = Len(procs) + 1]
                             /\ stream' = ConsoleStream_new(Len(procs) + 1,
                                                            combined_output)
                             /\ pipes' = NoPipes
                             /\ items' = <<>>
                             /\ lastPoll' = "none"
                        ELSE /\ result' = SpawnErrorContext
                             /\ procs' = procs
                             /\ UNCHANGED streamVars
    /\ pc' = "returned"
    /\ UNCHANGED <<envVars, taskVars, derived, client, newResult, stdoutBuf, stderrBuf,
                   timer>>

\* The consumer drops a ConsoleStream, and with it the Child it owns.
DropStream(pid) ==
    /\ pid \in 1..Len(procs)
    /\ procs[pid].handle = "stream"
    /\ procs' = [procs EXCEPT ![pid] = drop_child(@)]
    /\ stream' = IF stream.pid = pid THEN [stream EXCEPT !.open = FALSE] ELSE stream
    /\ UNCHANGED <<pipes, items, lastPoll>>
    /\ UNCHANGED <<envVars, taskVars, derived, client, newResult, pc, call,
                   spawnAttempts, stdoutBuf, stderrBuf, timer, result, nCalls>>

(***************************************************************************)
(* Configurations and their serialization into arguments by the            *)
(* serde_command_opts Serializer: the fields of a configuration in          *)
(* declaration order; an absent Option gives nothing, a string or a number  *)
(* gives the field's name and the value, a boolean the field's name and on  *)
(* or off, a sequence gives its elements.                                   *)
(***************************************************************************)
\* What a Serialize implementation hands to the serializer for one value
SerializeNone == [type |-> "none", val |-> <<>>]
SerializeStr(string) == [type |-> "str", val |-> <<string>>]
SerializeSeq(elements) == [type |-> "seq", val |-> elements]
SerializeBool(v) == [type |-> "bool", val |-> <<IF v THEN "true" ELSE "false">>]
\* a number is written in decimal
SerializeU32(v) == [type |-> "u32", val |-> <<ToString(v)>>]
\* unimplemented!(): the implementation panics
Unimplemented == [type |-> "unimplemented", val |-> <<>>]

\* enum LinkDeviceOrGroup, whose Default is None
LinkDevice(device) == [variant |-> "Device", device |-> device, group |-> 0]
LinkDeviceGroup(group) == [variant |-> "DeviceGroup", device |-> "", group |-> group]
LinkDeviceOrGroup_None == [variant |-> "None", device |-> "", group |-> 0]
LinkDeviceOrGroups == {LinkDevice("eth0"), LinkDeviceGroup(1), LinkDeviceOrGroup_None}

\* impl Serialize for LinkDeviceOrGroup
LinkDeviceOrGroup_serialize(self) ==
    IF self.variant = "Device" THEN SerializeSeq(<<"dev", self.device>>)
    ELSE IF self.variant = "DeviceGroup"
    THEN SerializeSeq(<<"group", ToString(self.group)>>)
    ELSE Unimplemented

\* enum AddressAddConfigurationFlag, whose Default is None
AddressAddConfigurationFlag ==
    {"None", "HomeAddress", "KernelManagedTemporaryAddress",
     "NoDuplicateAddressDetection", "NoPrefixRoute", "JoinMulticastGroups"}
\* (the three variants the configurations below are built from)
AddressAddConfigurationFlags == {"None", "HomeAddress", "NoDuplicateAddressDetection"}

\* impl ToString for AddressAddConfigurationFlag; None is unimplemented
AddressAddConfigurationFlag_to_string(self) ==
    CASE self = "HomeAddress" -> "home"
      [] self = "KernelManagedTemporaryAddress" -> "mngtmpaddr"
      [] self = "NoDuplicateAddressDetection" -> "nodad"
      [] self = "NoPrefixRoute" -> "noprefixroute"
      [] self = "JoinMulticastGroups" -> "autojoin"

\* impl Serialize for AddressAddConfigurationFlag
AddressAddConfigurationFlag_serialize(self) ==
    IF self = "None" THEN SerializeNone
    ELSE SerializeSeq(<<AddressAddConfigurationFlag_to_string(self)>>)

\* Serialize for Option<T>: None is serialize_none, Some(v) is v
Option_serialize(option, serialized) ==
    IF option.some THEN serialized ELSE SerializeNone

\* Serialize for Vec<AddressAddConfigurationFlag>: a sequence of the elements
RECURSIVE Vec_serialize(_)
Vec_serialize(flags) ==
    IF flags = <<>> THEN SerializeSeq(<<>>)
    ELSE SerializeSeq(AddressAddConfigurationFlag_serialize(Head(flags)).val
                      \o Vec_serialize(Tail(flags)).val)

Field(name, value) == [name |-> name, value |-> value]

\* enum LinkStatus
LinkStatuses == {"Up", "Down"}

\* impl Serialize for LinkStatus
LinkStatus_serialize(self) ==
    SerializeSeq(<<IF self = "Up" THEN "up" ELSE "down">>)

\* #[derive(Serialize)] struct LinkDeleteConfiguration
LinkDeleteConfiguration_serialize(self) ==
    <<Field("device", LinkDeviceOrGroup_serialize(self.device)),
      Field("type", SerializeStr(self.link_type))>>

\* (a variant that serializes state like the other fields)
LinkShowConfiguration_serialize_state(self) ==
    <<Field("device", LinkDeviceOrGroup_serialize(self.device)),
      Field("state", Option_serialize(self.state, LinkStatus_serialize(self.state.val))),
      Field("master", Option_serialize(self.master, SerializeStr(self.master.val)))>>

\* #[derive(Serialize)] struct LinkShowConfiguration (device, state and
\* master): state is #[serde(skip_serializing)], so the derived implementation
\* serializes no field for it
LinkShowConfiguration_serialize(self) ==
    <<Field("device", LinkDeviceOrGroup_serialize(self.device)),
      Field("master", Option_serialize(self.master, SerializeStr(self.master.val)))>>

\* #[derive(Serialize)] struct AddressAddConfiguration (local, dev and flags)
AddressAddConfiguration_serialize(self) ==
    <<Field("local", SerializeStr(self.local)),
      Field("dev", SerializeStr(self.device)),
      Field("flags", Option_serialize(self.flags, Vec_serialize(self.flags.val)))>>

\* enum ExpressDataPathVariant (two of its variants)
ExpressDataPathVariants == {"Default", "Driver"}

\* impl ToString for ExpressDataPathVariant
ExpressDataPathVariant_to_string(self) ==
    IF self = "Default" THEN "xdp" ELSE "xdpdrv"

\* enum ExpressDataPathConfiguration
ExpressDataPath_Off ==
    [kind |-> "Off", variant |-> "Default", path |-> "", section_name |-> None,
     verbose |-> FALSE]
ExpressDataPath_Pinned(variant, file, verbose) ==
    [kind |-> "Pinned", variant |-> variant, path |-> file, section_name |-> None,
     verbose |-> verbose]
ExpressDataPath_Object(variant, file, section_name, verbose) ==
    [kind |-> "Object", variant |-> variant, path |-> file,
     section_name |-> section_name, verbose |-> verbose]

\* impl Serialize for ExpressDataPathConfiguration: the number of elements
\* given to serialize_seq
ExpressDataPathConfiguration_elements(self) ==
    CASE self.kind = "Object" ->
            IF self.verbose /\ self.section_name.some THEN 6
            ELSE IF self.verbose THEN 4
            ELSE 3
      [] self.kind = "Pinned" -> IF self.verbose THEN 4 ELSE 3
      [] self.kind = "Off" -> 2

\* impl Serialize for ExpressDataPathConfiguration: the elements serialized
\* into the sequence
ExpressDataPathConfiguration_serialize(self) ==
    CASE self.kind = "Object" ->
            SerializeSeq(<<ExpressDataPathVariant_to_string(self.variant), "object",
                           self.path>>
                         \o (IF self.section_name.some
                             THEN <<"section", self.section_name.val>> ELSE <<>>)
                         \o (IF self.verbose THEN <<"verbose">> ELSE <<>>))
      [] self.kind = "Pinned" ->
            SerializeSeq(<<ExpressDataPathVariant_to_string(self.variant), "pinned",
                           self.path>>
                         \o (IF self.verbose THEN <<"verbose">> ELSE <<>>))
      [] self.kind = "Off" -> SerializeSeq(<<"xdp", "off">>)

\* #[derive(Serialize)] struct LinkSetConfiguration (device, state, arp,
\* txqueuelen, name, xdp and type), field by field in declaration order
LinkSetConfiguration_serialize(self) ==
    <<Field("device", LinkDeviceOrGroup_serialize(self.device)),
      Field("state", Option_serialize(self.state, LinkStatus_serialize(self.state.val))),
      Field("arp", Option_serialize(self.arp, SerializeBool(self.arp.val))),
      Field("txqueuelen",
            Option_serialize(self.transmit_queue_length,
                             SerializeU32(self.transmit_queue_length.val))),
      Field("name", Option_serialize(self.new_name, SerializeStr(self.new_name.val))),
      Field("express_data_path",
            Option_serialize(self.express_data_path,
                             ExpressDataPathConfiguration_serialize(
                                 self.express_data_path.val))),
      Field("type", Option_serialize(self.link_type, SerializeStr(self.link_type.val)))>>

\* enum AddressConfigurationFlag, whose Default is None
AddressConfigurationFlag ==
    {"None", "Dynamic", "Permanent", "Tentative", "NotTentative", "Deprecated",
     "NotDeprecated", "DuplicateAddressDetectionFailed",
     "NotDuplicateAddressDetectionFailed", "Primary", "Secondary", "Temporary"}
\* (the three variants the configurations below are built from)
AddressConfigurationFlags == {"None", "Permanent", "NotTentative"}

\* impl ToString for AddressConfigurationFlag; None is unimplemented
AddressConfigurationFlag_to_string(self) ==
    CASE self = "Dynamic" -> "dynamic"
      [] self = "Permanent" -> "permanent"
      [] self = "Tentative" -> "tentative"
      [] self = "NotTentative" -> "-tentative"
      [] self = "Deprecated" -> "deprecated"
      [] self = "NotDeprecated" -> "-deprecated"
      [] self = "DuplicateAddressDetectionFailed" -> "dadfailed"
      [] self = "NotDuplicateAddressDetectionFailed" -> "-dadfailed"
      [] self = "Primary" -> "primary"
      [] self = "Secondary" -> "secondary"
      [] self = "Temporary" -> "temporary"

\* (a variant that serializes None as a keyword of its own)
AddressConfigurationFlag_serialize_none_word(self) ==
    IF self = "None" THEN SerializeSeq(<<"none">>)
    ELSE SerializeSeq(<<AddressConfigurationFlag_to_string(self)>>)

\* impl Serialize for AddressConfigurationFlag
AddressConfigurationFlag_serialize(self) ==
    IF self = "None" THEN SerializeNone
    ELSE SerializeSeq(<<AddressConfigurationFlag_to_string(self)>>)

\* Serialize for Vec<AddressConfigurationFlag>: a sequence of the elements
RECURSIVE Vec_AddressConfigurationFlag_serialize(_)
Vec_AddressConfigurationFlag_serialize(flags) ==
    IF flags = <<>> THEN SerializeSeq(<<>>)
    ELSE SerializeSeq(AddressConfigurationFlag_serialize(Head(flags)).val
                      \o Vec_AddressConfigurationFlag_serialize(Tail(flags)).val)

\* #[derive(Serialize)] struct AddressFlushOrSaveConfiguration (dev, metric,
\* flags and state), field by field in declaration order
AddressFlushOrSaveConfiguration_serialize(self) ==
    <<Field("dev", Option_serialize(self.device, SerializeStr(self.device.val))),
      Field("metric", Option_serialize(self.metric, SerializeU32(self.metric.val))),
      Field("flags",
            Option_serialize(self.flags,
                             Vec_AddressConfigurationFlag_serialize(self.flags.val))),
      Field("state", Option_serialize(self.state, LinkStatus_serialize(self.state.val)))>>

\* BooleanType::OnOff, the boolean type every sub-command gives the Serializer
BooleanType_OnOff == "OnOff"

\* The arguments one field contributes: a string or a number follows the
\* name of its field, a boolean is the name of its field and on or off, a
\* sequence is its elements, and serialize_none is nothing
field_args(boolean_type, field) ==
    CASE field.value.type \in {"str", "u32"} -> <<field.name>> \o field.value.val
      [] field.value.type = "bool" /\ boolean_type = BooleanType_OnOff ->
            <<field.name, IF field.value.val = <<"true">> THEN "on" ELSE "off">>
      [] field.value.type \in {"seq", "none"} -> field.value.val

\* Serializer::new(boolean_type).into_args(&configuration): Ok with the
\* arguments, or the panic of an implementation that is unimplemented
RECURSIVE into_args(_, _)
\* (a variant whose serializer keeps the arguments of an earlier call)
into_args_keeps_buffer(boolean_type, fields) ==
    IF fields = <<>>
    THEN [kind |-> "Ok", args |-> IF procs = <<>> THEN <<>> ELSE <<"-json">>]
    ELSE IF Head(fields).value.type = "unimplemented"
    THEN [kind |-> "panic", args |-> <<>>]
    ELSE LET rest == into_args(boolean_type, Tail(fields))
         IN IF rest.kind # "Ok" THEN rest
            ELSE [kind |-> "Ok",
                  args |-> field_args(boolean_type, Head(fields)) \o rest.args]

\* (a variant that puts the arguments of a field after those of the fields
\* declared after it)
into_args_last_first(boolean_type, fields) ==
    IF fields = <<>> THEN [kind |-> "Ok", args |-> <<>>]
    ELSE IF Head(fields).value.type = "unimplemented"
    THEN [kind |-> "panic", args |-> <<>>]
    ELSE LET rest == into_args(boolean_type, Tail(fields))
         IN IF rest.kind # "Ok" THEN rest
            ELSE [kind |-> "Ok",
                  args |-> rest.args \o field_args(boolean_type, Head(fields))]

into_args(boolean_type, fields) ==
    IF fields = <<>> THEN [kind |-> "Ok", args |-> <<>>]
    ELSE IF Head(fields).value.type = "unimplemented"
    THEN [kind |-> "panic", args |-> <<>>]
    ELSE LET rest == into_args(boolean_type, Tail(fields))
         IN IF rest.kind # "Ok" THEN rest
            ELSE [kind |-> "Ok",
                  args |-> field_args(boolean_type, Head(fields)) \o rest.args]

LinkDeleteConfigurations ==
    {[device |-> d, link_type |-> "dummy"] : d \in LinkDeviceOrGroups}
\* Option<LinkShowConfiguration>
LinkShowConfigurations ==
    {None} \cup {Some([device |-> d, state |-> s, master |-> m]) :
                    d \in LinkDeviceOrGroups,
                    s \in {None} \cup {Some(v) : v \in LinkStatuses},
                    m \in {None, Some("br0")}}
\* LinkSetConfiguration of one device: the fields state, arp, txqueuelen and
\* type in every combination, and name, xdp and type in every combination
ExpressDataPathConfigurations ==
    {ExpressDataPath_Off}
    \cup {ExpressDataPath_Pinned(v, "/sys/fs/bpf/p", verbose) :
             v \in ExpressDataPathVariants, verbose \in BOOLEAN}
    \cup {ExpressDataPath_Object("Default", "xdp_test.o", section_name, verbose) :
             section_name \in {None, Some("prog")}, verbose \in BOOLEAN}
LinkSetConfigurations ==
    {[device |-> LinkDevice("eth0"), state |-> s, arp |-> a,
      transmit_queue_length |-> q, new_name |-> None, express_data_path |-> None,
      link_type |-> t] :
        s \in {None, Some("Up")}, a \in {None, Some(TRUE), Some(FALSE)},
        q \in {None, Some(1)}, t \in {None, Some("dummy")}}
    \cup {[device |-> LinkDevice("eth0"), state |-> None, arp |-> None,
           transmit_queue_length |-> None, new_name |-> n, express_data_path |-> x,
           link_type |-> t] :
             n \in {None, Some("dummy1")},
             x \in {None} \cup {Some(v) : v \in ExpressDataPathConfigurations},
             t \in {None, Some("dummy")}}
\* Option<AddressFlushOrSaveConfiguration>, whose Default has every field
\* absent
AddressFlushOrSaveConfiguration_default ==
    [device |-> None, metric |-> None, flags |-> None, state |-> None]
AddressFlushConfigurations ==
    {None}
    \cup {Some([device |-> d, metric |-> m, flags |-> f, state |-> s]) :
             d \in {None, Some("eth0")}, m \in {None, Some(10)},
             f \in {None, Some(<<"Permanent">>)}, s \in {None, Some("Down")}}
    \cup {Some([AddressFlushOrSaveConfiguration_default EXCEPT !.flags = Some(v)]) :
             v \in SeqsUpTo(AddressConfigurationFlags, 2)}
AddressAddConfigurations ==
    {[local |-> "::1", device |-> "eth0", flags |-> f] :
        f \in {None} \cup {Some(v) : v \in SeqsUpTo(AddressAddConfigurationFlags, 2)}}

(***************************************************************************)
(* Concurrent invocations: tasks that call IpCommand::command on the same   *)
(* client (or on clones of it, which are equal values), each polled by the  *)
(* runtime in any order. Each child writes to its own stdout pipe.          *)
(***************************************************************************)
MaxPairOut == 1     \* bytes the child of a task writes to its stdout

Tasks == {1, 2}
\* The arguments each task passes: netns list by one, link show by the other
TaskArgs == <<<<"netns", "list">>, <<"link", "show">>>>
PairBytes == {97, 195}      \* 'a', and a byte that alone is not valid UTF-8

\* (child: the pid of the Child the task holds, 0 before the spawn)
NoTask == [pc |-> "idle", call |-> NoCall, child |-> 0, timer |-> NoTimer,
           result |-> NoResult]
NoIo == [stdout |-> <<>>, stderr |-> <<>>, status |-> 0]

\* (a variant in which a task waits for the child spawned last)
own_child_is_latest(t) == Len(procs)

\* The Child a task's invocation owns: `process` in IpCommand::command
own_child(t) == tasks[t].child

\* IpCommand::command up to its await, by task t
TaskStart(t, args, combined_output) ==
    /\ client.built
    /\ tasks[t].pc = "idle"
    /\ \E outcome \in spawn_outcomes(client.command) :
          LET started == [op |-> "command", self |-> client, args |-> args,
                          combined_output |-> combined_output, spawn |-> outcome]
          IN IF outcome = "spawned"
             THEN /\ procs' = Append(procs,
                        spawned_child(client.command, concat_args(client, args),
                                      "future", t))
                  /\ childIo' = Append(childIo, NoIo)
                  /\ tasks' = [tasks EXCEPT ![t] =
                        [pc |-> "await", call |-> started, child |-> Len(procs) + 1,
                         timer |-> [NoTimer EXCEPT !.armed = TRUE,
                                                   !.duration = client.timeout],
                         result |-> NoResult]]
             ELSE /\ tasks' = [tasks EXCEPT ![t] =
                        [NoTask EXCEPT !.pc = "returned", !.call = started,
                                       !.result = SpawnErrorContext]]
                  /\ UNCHANGED <<procs, childIo>>
    /\ UNCHANGED <<envVars, streamVars, client, derived, newResult, invocationVars>>

\* The child of a task writes one byte to its stdout.
TaskChildWrite(pid, b) ==
    /\ pid \in 1..Len(procs)
    /\ procs[pid].state = "running"
    /\ procs[pid].handle # "dropped"
    /\ Len(childIo[pid].stdout) < MaxPairOut
    /\ childIo' = [childIo EXCEPT ![pid].stdout = Append(@, b)]
    /\ UNCHANGED <<envVars, streamVars, client, derived, newResult, invocationVars,
                   procs, tasks>>

\* The child of a task exits.
TaskChildExit(pid, status) ==
    /\ pid \in 1..Len(procs)
    /\ procs[pid].state = "running"
    /\ procs[pid].handle # "dropped"
    /\ procs' = [procs EXCEPT ![pid].state = "exited", ![pid].status = status]
    /\ childIo' = [childIo EXCEPT ![pid].status = status]
    /\ tasks' = [t \in Tasks |->
                    IF tasks[t].pc = "await" /\ own_child(t) = pid
                       /\ ~tasks[t].timer.elapsed
                    THEN [tasks[t] EXCEPT !.timer.childFirst = TRUE]
                    ELSE tasks[t]]
    /\ UNCHANGED <<envVars, streamVars, client, derived, newResult, invocationVars>>

\* The duration given to tokio::time::timeout by task t passes.
TaskTimerElapse(t) ==
    /\ tasks[t].pc = "await"
    /\ ~tasks[t].timer.elapsed
    /\ tasks' = [tasks EXCEPT ![t].timer.elapsed = TRUE]
    /\ UNCHANGED <<envVars, streamVars, client, derived, newResult, invocationVars,
                   procs, childIo>>

\* IpCommand::command from its await on, by task t
TaskResume(t, io_error) ==
    /\ tasks[t].pc = "await"
    /\ LET pid == own_child(t)
           ready == procs[pid].state = "exited"
       IN /\ io_error \/ ready \/ tasks[t].timer.elapsed
          /\ IF io_error
             THEN /\ tasks' = [tasks EXCEPT ![t].pc = "returned",
                                            ![t].timer.armed = FALSE,
                                            ![t].result = Err("CommandError")]
                  /\ procs' = [procs EXCEPT ![pid] = drop_child(@)]
             ELSE IF ready
             THEN /\ tasks' = [tasks EXCEPT ![t].pc = "returned",
                                            ![t].timer.armed = FALSE,
                                            ![t].result =
                                               command_output(procs[pid].status,
                                                  childIo[pid].stdout,
                                                  childIo[pid].stderr,
                                                  tasks[t].call.combined_output)]
                  /\ procs' = [procs EXCEPT ![pid] = reaped(@)]
             ELSE /\ tasks' = [tasks EXCEPT ![t].pc = "returned",
                                            ![t].timer.armed = FALSE,
                                            ![t].result = Err("CommandTimeoutError")]
                  /\ procs' = [procs EXCEPT ![pid] = drop_child(@)]
    /\ UNCHANGED <<envVars, streamVars, client, derived, newResult, invocationVars,
                   childIo>>

\* A sub-command that serializes its configuration and then runs command:
\* IpLinkCommand::delete, set and show, IpAddressCommand::add and flush. The
\* arguments are built before anything is spawned; a serializer error is
\* returned as CommandOptionsSerializationError, and a panic unwinds through
\* the caller.
Facade(op, prefix, serialized) ==
    IF serialized.kind = "Ok"
    THEN CommandStart(client, prefix \o serialized.args, FALSE)
    ELSE /\ client.built
         /\ pc = "idle"
         /\ nCalls < MaxCalls
         /\ nCalls' = nCalls + 1
         /\ call' = [NoCall EXCEPT !.op = op, !.self = client]
         /\ result' = IF serialized.kind = "panic"
                       THEN [NoResult EXCEPT !.kind = "panic"]
                       ELSE Err("CommandOptionsSerializationError")
         /\ pc' = "returned"
         /\ UNCHANGED <<envVars, streamVars, taskVars, client, derived, newResult,
                        procs, spawnAttempts, stdoutBuf, stderrBuf, timer>>

\* IpLinkCommand::delete
LinkDelete(configuration) ==
    Facade("link delete", <<"link", "delete">>,
           into_args(BooleanType_OnOff, LinkDeleteConfiguration_serialize(configuration)))

\* IpLinkCommand::show
LinkShow(configuration) ==
    Facade("link show", <<"link", "show">>,
           IF configuration.some
           THEN into_args(BooleanType_OnOff,
                          LinkShowConfiguration_serialize(configuration.val))
           ELSE [kind |-> "Ok", args |-> <<>>])

\* IpLinkCommand::set
LinkSet(configuration) ==
    Facade("link set", <<"link", "set">>,
           into_args(BooleanType_OnOff, LinkSetConfiguration_serialize(configuration)))

\* IpAddressCommand::flush
AddressFlush(configuration) ==
    Facade("address flush", <<"address", "flush">>,
           IF configuration.some
           THEN into_args(BooleanType_OnOff,
                          AddressFlushOrSaveConfiguration_serialize(configuration.val))
           ELSE [kind |-> "Ok", args |-> <<>>])

\* IpAddressCommand::add
AddressAdd(configuration) ==
    Facade("address add", <<"address", "add">>,
           into_args(BooleanType_OnOff, AddressAddConfiguration_serialize(configuration)))

InitCall ==
    /\ client = NoClient
    /\ derived = NoClient
    /\ newResult = "none"
    /\ pc = "idle"
    /\ call = NoCall
    /\ procs = <<>>
    /\ spawnAttempts = 0
    /\ stdoutBuf = <<>>
    /\ stderrBuf = <<>>
    /\ timer = NoTimer
    /\ result = NoResult
    /\ nCalls = 0
    /\ tasks = [t \in Tasks |-> NoTask]
    /\ childIo = <<>>
    /\ stream = NoStream
    /\ pipes = NoPipes
    /\ items = <<>>
    /\ lastPoll = "none"

\* Construction of a client under every PATH and file system.
InitPath ==
    /\ pathEnv \in PathEnvs
    /\ fs \in FileSystems
    /\ InitCall

NextPath == New

SpecPath == InitPath /\ [][NextPath]_vars

(***************************************************************************)
(* The client and its invocations, under a PATH of two directories of      *)
(* which the first may hold ip and the second may hold stdbuf.             *)
(***************************************************************************)
InvokerFileSystems ==
    {f \in FileSystems :
        /\ \A n \in Names : f["/usr/local/bin"][n] = "absent"
        /\ f["/usr/sbin"]["ip"] \in {"file", "absent"}
        /\ f["/usr/sbin"]["stdbuf"] = "absent"
        /\ f["/usr/bin"]["ip"] = "absent"
        /\ f["/usr/bin"]["stdbuf"] \in {"file", "absent"}}

Init ==
    /\ pathEnv = [set |-> TRUE, dirs |-> <<"/usr/sbin", "/usr/bin">>]
    /\ fs \in InvokerFileSystems
    /\ InitCall

Next ==
    \/ New
    \/ \E self \in Clients, args \in ArgLists, combined_output \in BOOLEAN :
          CommandStart(self, args, combined_output)
    \/ \E b \in Bytes : ChildWriteStdout(b)
    \/ \E b \in Bytes : ChildWriteStderr(b)
    \/ \E pid \in 1..MaxCalls, status \in ExitStatuses : ChildExit(pid, status)
    \/ TimerElapse
    \/ \E io_error \in BOOLEAN : CommandResume(io_error)
    \/ CallerContinues
    \/ \E self \in Clients, args \in ArgLists, combined_output \in BOOLEAN :
          CommandWithStreamingOutput(self, args, combined_output)
    \/ \E pid \in 1..MaxCalls : DropStream(pid)

Spec == Init /\ [][Next]_vars

\* The runtime keeps polling the invocation, and time passes.
SpecFair == Spec /\ WF_vars(TimerElapse) /\ WF_vars(CommandResume(FALSE))

(***************************************************************************)
(* Properties of IpCommand::new and IpCommand::command.                    *)
(***************************************************************************)
Ok(value) == [NoResult EXCEPT !.kind = "Ok", !.value = value]

\* The step in which a command invocation leaves its await and returns.
CommandReturns == pc = "await" /\ pc' = "returned"

\* The child of the invocation exited with the given status before the timer
\* elapsed, and the invocation has not returned yet.
ExitedInTime(status) ==
    /\ pc = "await"
    /\ procs[CurrentPid].state = "exited"
    /\ procs[CurrentPid].status = status
    /\ timer.childFirst

\* C1, as stated: when the child exits with status zero before the timeout
\* elapses, the call returns Ok with exactly the child's stdout if
\* combined_output is false and with stdout immediately followed by stderr if
\* it is true, for every content the child wrote.
C1_SuccessForEveryContent ==
    [][(CommandReturns /\ ExitedInTime(0))
        => result' = Ok(IF call.combined_output THEN stdoutBuf \o stderrBuf
                        ELSE stdoutBuf)]_vars

\* C1, amended: when the child exits with status zero before the timeout
\* elapses and its stdout and stderr are both valid UTF-8, the call returns Ok
\* with exactly stdout (combined_output false) or stdout immediately followed
\* by stderr (combined_output true), unless wait_with_output failed with an
\* io::Error, which is returned as CommandError.
C1_SuccessForValidUtf8 ==
    [][(CommandReturns /\ ExitedInTime(0)
        /\ utf8_valid(stdoutBuf) /\ utf8_valid(stderrBuf))
        => \/ result' = Ok(IF call.combined_output THEN stdoutBuf \o stderrBuf
                           ELSE stdoutBuf)
           \/ result' = Err("CommandError")]_vars

\* C1: a combined success whose stdout and stderr differ and are both not empty.
C1_Witness ==
    /\ pc = "returned"
    /\ call.op = "command"
    /\ call.combined_output
    /\ timer.childFirst
    /\ stdoutBuf # <<>> /\ stderrBuf # <<>> /\ stdoutBuf # stderrBuf
    /\ result = Ok(stdoutBuf \o stderrBuf)

\* C2, as stated: when the child exits with a nonzero status before the
\* timeout elapses, the call returns CommandFailedError whose stdout and
\* stderr are exactly what the child wrote to each pipe, for both values of
\* combined_output, and never Ok.
C2_FailureForEveryContent ==
    [][(CommandReturns /\ ExitedInTime(1))
        => result' = [Err("CommandFailedError") EXCEPT !.stdout = stdoutBuf,
                                                       !.stderr = stderrBuf]]_vars

\* C2, amended: when the child exits with a nonzero status before the timeout
\* elapses and its stdout and stderr are both valid UTF-8, the call returns
\* CommandFailedError whose stdout and stderr are exactly what the child wrote
\* to each pipe, for both values of combined_output, unless wait_with_output
\* failed with an io::Error, which is returned as CommandError; it never
\* returns Ok.
C2_FailureForValidUtf8 ==
    [][(CommandReturns /\ ExitedInTime(1)
        /\ utf8_valid(stdoutBuf) /\ utf8_valid(stderrBuf))
        => \/ result' = [Err("CommandFailedError") EXCEPT !.stdout = stdoutBuf,
                                                          !.stderr = stderrBuf]
           \/ result' = Err("CommandError")]_vars

\* C2: a failure in stdout-only mode that carries a stderr that is not empty.
C2_Witness ==
    /\ pc = "returned"
    /\ call.op = "command"
    /\ ~call.combined_output
    /\ timer.childFirst
    /\ stdoutBuf # <<>> /\ stderrBuf # <<>>
    /\ result.error = "CommandFailedError"
    /\ result.stdout = stdoutBuf
    /\ result.stderr = stderrBuf

\* C3: once a command invocation has returned CommandTimeoutError, the child
\* it spawned is no longer running.
C3_TimeoutTerminatesChild ==
    (pc = "returned" /\ call.op = "command" /\ result.error = "CommandTimeoutError")
        => procs[CurrentPid].state # "running"

\* C4: a command invocation that has ended has returned exactly one outcome,
\* Ok or a typed error; a child that completed before the timeout never
\* yields CommandTimeoutError, and an invocation the timeout has won returns
\* no success value.
C4_OneOutcomeDecidedByRace ==
    (pc = "returned" /\ call.op = "command")
        => /\ result.kind \in {"Ok", "Err"}
           /\ timer.childFirst => result.error # "CommandTimeoutError"
           /\ result.error = "CommandTimeoutError"
                => result.kind = "Err" /\ result.value = <<>>

\* C4, the part about the race alone: a child that completed before the
\* timeout never yields CommandTimeoutError, and an invocation that returned
\* CommandTimeoutError carries no success value and no captured output.
C4_RaceDecides ==
    (pc = "returned" /\ call.op = "command")
        => /\ timer.childFirst => result.error # "CommandTimeoutError"
           /\ result.error = "CommandTimeoutError"
                => result = Err("CommandTimeoutError") /\ timer.elapsed

\* C4, the part about termination: under a runtime that keeps polling and a
\* clock that advances, an invocation that awaits its child ends, also when
\* the child never exits.
C4_AwaitEnds == (pc = "await") ~> (pc = "returned")

\* C5: when the captured output is not valid UTF-8, on stdout or on stderr,
\* the invocation returns a typed error.
C5_InvalidUtf8IsTypedError ==
    (/\ pc = "returned"
     /\ call.op = "command"
     /\ call.spawn = "spawned"
     /\ procs[CurrentPid].state = "reaped"
     /\ ~utf8_valid(stdoutBuf) \/ ~utf8_valid(stderrBuf))
        => result.kind = "Err"

\* C6: when the spawn fails, command and command_with_streaming_output return
\* SpawnError, carrying no output and no stream, and no child process exists
\* for the invocation.
C6_SpawnFailure ==
    (pc = "returned" /\ call.spawn = "failed")
        => /\ result = Err("SpawnError")
           /\ \A pid \in 1..Len(procs) : procs[pid].call # nCalls

\* C6: a streaming invocation whose spawn failed, after an earlier invocation
\* that did spawn a child.
C6_Witness ==
    /\ pc = "returned"
    /\ call.op = "command_with_streaming_output"
    /\ call.spawn = "failed"
    /\ result.error = "SpawnError"
    /\ Len(procs) = 1

Holders(name) ==
    {i \in 1..Len(pathEnv.dirs) : fs[pathEnv.dirs[i]][name] = "file"}

\* C8: IpCommand::new takes the first directory of PATH that holds a file
\* named ip, and fails with CommandNotFoundError exactly when PATH is unset or
\* no directory of PATH holds such a file.
C8_FirstMatchWins ==
    newResult # "none"
        => IF ~pathEnv.set \/ Holders("ip") = {}
           THEN newResult = "CommandNotFoundError" /\ ~client.built
           ELSE /\ newResult = "Ok"
                /\ client.built
                /\ \E i \in Holders("ip") :
                      /\ \A j \in Holders("ip") : i <= j
                      /\ client.command = <<pathEnv.dirs[i], "ip">>

\* C8: two different directories of PATH hold ip, the first one after a
\* directory that holds no such file, and the client has the first.
C8_Witness ==
    /\ newResult = "Ok"
    /\ \E i, j \in Holders("ip") :
          /\ 1 < i /\ i < j
          /\ pathEnv.dirs[i] # pathEnv.dirs[j]
          /\ fs[pathEnv.dirs[1]]["ip"] = "dir"
          /\ client.command = <<pathEnv.dirs[i], "ip">>

\* C9, as stated: once IpCommand::new has succeeded, no operation on the
\* client returns CommandNotFoundError.
C9_NotFoundOnlyAtConstruction ==
    (client.built /\ pc = "returned") => result.error # "CommandNotFoundError"

\* C9, amended: once IpCommand::new has succeeded, command never returns
\* CommandNotFoundError, and command_with_streaming_output returns it exactly
\* when no directory of PATH holds a file named stdbuf at the time of the
\* call, in which case it spawns nothing.
C9_NotFoundOnlyForStdbuf ==
    pc = "returned"
        => /\ result.error = "CommandNotFoundError"
                <=> (call.op = "command_with_streaming_output"
                     /\ (~pathEnv.set \/ Holders("stdbuf") = {}))
           /\ result.error = "CommandNotFoundError"
                => spawnAttempts = 0 /\ \A pid \in 1..Len(procs) : procs[pid].call # nCalls

\* C9: a streaming invocation that returned CommandNotFoundError on a client
\* that was built and has run a command before.
C9_Witness ==
    /\ client.built
    /\ pc = "returned"
    /\ nCalls = 2
    /\ call.op = "command_with_streaming_output"
    /\ result.error = "CommandNotFoundError"

\* The timeout a caller wants its client to use instead of the default.
CallerTimeoutMs == 100

ClientArgLists == {<<>>, <<"show", "show", "-netns", "-json">>}

\* (every sub-command passes combined_output = false)
NextClient ==
    \/ New
    \/ \E self \in Clients, namespace \in Namespaces : WithNamespace(self, namespace)
    \/ \E self \in Clients, args \in ClientArgLists : CommandStart(self, args, FALSE)
    \/ \E pid \in 1..MaxCalls : ChildExit(pid, 0)
    \/ TimerElapse
    \/ CommandResume(FALSE)
    \/ CallerContinues
    \/ \E self \in Clients, args \in ClientArgLists :
          CommandWithStreamingOutput(self, args, FALSE)
    \/ \E pid \in 1..MaxCalls : DropStream(pid)

SpecClient == Init /\ [][NextClient]_vars

\* C11: once a client is constructed no operation changes it: its binary
\* path, timeout and namespace stay what they were; the client held from
\* with_namespace keeps the binary path and timeout it was derived with; and a
\* with_namespace(namespace) call on a client returns a client with that
\* namespace and the binary path and timeout of the client it was called on.
C11_ClientFrame ==
    [][/\ client.built => client' = client
       /\ (derived.built /\ derived'.built)
             => derived'.command = derived.command /\ derived'.timeout = derived.timeout
       /\ \A self \in Clients, namespace \in Namespaces :
             WithNamespace(self, namespace)
                => /\ derived'.built
                   /\ derived'.command = self.command
                   /\ derived'.timeout = self.timeout
                   /\ derived'.namespace = Some(namespace)]_vars

\* C11: an invocation on a client derived in two with_namespace steps has
\* returned, after an invocation on the original client, which still has no
\* namespace.
C11_Witness ==
    /\ pc = "returned"
    /\ nCalls = 2
    /\ call.self = derived
    /\ derived.namespace = Some("red")
    /\ client.built
    /\ client.namespace = None
    /\ derived.command = client.command
    /\ derived.timeout = client.timeout
    /\ Len(procs) = 2
    /\ procs[1].args = <<"-json">>

\* The values that follow each "-netns" word of an argument list, in order.
RECURSIVE NetnsPairs(_)
NetnsPairs(a) ==
    IF Len(a) < 2 THEN <<>>
    ELSE IF a[1] = "-netns" THEN <<a[2]>> \o NetnsPairs(SubSeq(a, 3, Len(a)))
    ELSE NetnsPairs(Tail(a))

\* What C13 says ip receives from an invocation on client self with the
\* caller's arguments args, position by position.
IsIpArgumentList(a, self, args) ==
    /\ Len(a) >= 1
    /\ a[1] = "-json"
    /\ IF self.namespace.some
       THEN /\ Len(a) >= 3
            /\ a[2] = "-netns"
            /\ a[3] = self.namespace.val
            /\ SubSeq(a, 4, Len(a)) = args
       ELSE SubSeq(a, 2, Len(a)) = args

\* C13: the step that spawns the child of command(args) passes to the ip
\* binary exactly -json, then -netns and the namespace if and only if the
\* client has one, then the caller's arguments in order, unmodified and not
\* deduplicated; the step that spawns the child of
\* command_with_streaming_output passes to stdbuf exactly -i0, -o0, -e0, the
\* resolved ip path, then that same list; and with_namespace applied to a
\* client that already has a namespace yields a client whose list has one
\* -netns pair, naming the namespace given last.
C13_ArgumentLists ==
    [][/\ Len(procs') = Len(procs) + 1
            => LET child == procs'[Len(procs')]
                   a == child.args
               IN IF call'.op = "command"
                  THEN /\ child.program = call'.self.command
                       /\ IsIpArgumentList(a, call'.self, call'.args)
                  ELSE /\ child.program[2] = "stdbuf"
                       /\ Len(a) >= 4
                       /\ SubSeq(a, 1, 3) = <<"-i0", "-o0", "-e0">>
                       /\ a[4] = call'.self.command[1] \o "/ip"
                       /\ IsIpArgumentList(SubSeq(a, 5, Len(a)), call'.self, call'.args)
       /\ \A self \in Clients, namespace \in Namespaces :
             (WithNamespace(self, namespace) /\ self.namespace.some)
                => NetnsPairs(concat_args(derived', <<>>)) = <<namespace>>]_vars

\* C13: a streaming invocation with repeated and client-like words on a
\* client of namespace red, after a command on a client of namespace blue (so
\* with_namespace was applied twice) and with no arguments.
C13_Witness ==
    /\ pc = "returned"
    /\ call.op = "command_with_streaming_output"
    /\ call.self.namespace = Some("red")
    /\ Len(procs) = 2
    /\ procs[1].program = <<"/usr/sbin", "ip">>
    /\ procs[1].args = <<"-json", "-netns", "blue">>
    /\ procs[2].program = <<"/usr/bin", "stdbuf">>
    /\ procs[2].args = <<"-i0", "-o0", "-e0", "/usr/sbin/ip", "-json", "-netns", "red",
                         "show", "show", "-netns", "-json">>

(***************************************************************************)
(* Two tasks invoke IpCommand::command concurrently on one client.          *)
(***************************************************************************)
NextPair ==
    \/ New
    \/ \E t \in Tasks, combined_output \in BOOLEAN :
          TaskStart(t, TaskArgs[t], combined_output)
    \/ \E pid \in Tasks, b \in PairBytes : TaskChildWrite(pid, b)
    \/ \E pid \in Tasks, status \in ExitStatuses : TaskChildExit(pid, status)
    \/ \E t \in Tasks : TaskTimerElapse(t)
    \/ \E t \in Tasks, io_error \in BOOLEAN : TaskResume(t, io_error)

SpecPair == Init /\ [][NextPair]_vars

\* The children spawned by the invocation of task t.
ChildrenOf(t) == {pid \in 1..Len(procs) : procs[pid].call = t}

\* The result of task t is the one its invocation has when run alone with a
\* child that writes and exits as child pid did.
AsIfAlone(t, pid) ==
    LET r == tasks[t].result
    IN \/ r = Err("CommandError")
       \/ /\ r = Err("CommandTimeoutError")
          /\ tasks[t].timer.elapsed
          /\ ~tasks[t].timer.childFirst
          /\ procs[pid].state = "running"
       \/ /\ procs[pid].state = "reaped"
          /\ r = command_output(childIo[pid].status, childIo[pid].stdout,
                                childIo[pid].stderr, tasks[t].call.combined_output)

\* C12: in every interleaving of two concurrent command invocations on one
\* client, each invocation spawns a child of its own, given its own arguments,
\* and once it has returned its result is the one it has when run alone: it is
\* decided by what its own child wrote, by that child's exit status and by its
\* own timer, whatever the other invocation and its child did.
C12_InvocationsIndependent ==
    \A t \in Tasks :
       /\ Cardinality(ChildrenOf(t)) <= 1
       /\ tasks[t].pc = "idle" => ChildrenOf(t) = {}
       /\ tasks[t].call.spawn = "failed"
             => ChildrenOf(t) = {} /\ tasks[t].result = Err("SpawnError")
       /\ tasks[t].call.spawn = "spawned"
             => \E pid \in ChildrenOf(t) :
                   /\ procs[pid].program = client.command
                   /\ procs[pid].args = concat_args(client, tasks[t].call.args)
                   /\ tasks[t].pc = "returned" => AsIfAlone(t, pid)

\* C12: the invocations overlapped, the one started second returned first,
\* and their children wrote and ended differently: task 1 got its own child's
\* byte as Ok text while task 2 timed out on a child that wrote another byte.
C12_Witness ==
    /\ tasks[1].pc = "returned"
    /\ tasks[2].pc = "returned"
    /\ tasks[1].child = 1
    /\ tasks[2].child = 2
    /\ tasks[1].timer.elapsed
    /\ tasks[1].timer.childFirst
    /\ childIo[1].stdout = <<97>>
    /\ childIo[2].stdout = <<195>>
    /\ tasks[1].result = Ok(<<97>>)
    /\ tasks[2].result = Err("CommandTimeoutError")
    /\ tasks[1].call.args # tasks[2].call.args

(***************************************************************************)
(* A caller obtains a ConsoleStream with combined_output = true, polls it    *)
(* while its child writes to both pipes and exits, and drops it.            *)
(***************************************************************************)
NextStream ==
    \/ New
    \/ \E self \in Clients, args \in ArgLists :
          CommandWithStreamingOutput(self, args, TRUE)
    \/ \E name \in PipeNames : \E b \in LineBytes[name] : StreamChildWrite(name, b)
    \/ \E pid \in 1..MaxCalls : ChildExit(pid, 0)
    \/ \E failing \in PipeNames \cup {"none"} : PollNext(failing)
    \/ \E pid \in 1..MaxCalls : DropStream(pid)

SpecStream == Init /\ [][NextStream]_vars

\* The stream of netns exec and netns monitor, which pass combined_output =
\* false: the lines of stdout alone.
NextStdoutStream ==
    \/ New
    \/ \E self \in Clients, args \in ArgLists :
          CommandWithStreamingOutput(self, args, FALSE)
    \/ \E b \in LineBytes.stdout : StreamChildWrite("stdout", b)
    \/ \E pid \in 1..MaxCalls, status \in ExitStatuses : ChildExit(pid, status)
    \/ \E failing \in {"stdout", "none"} : PollNext(failing)
    \/ \E pid \in 1..MaxCalls : DropStream(pid)

\* The consumer keeps polling the stream it holds.
SpecStdoutStreamFair == Init /\ [][NextStdoutStream]_vars /\ WF_vars(PollNext("none"))

\* The stream of netns exec of a child that writes to its stderr before it
\* writes a line to its stdout. The consumer keeps polling and the child
\* writes whenever its write does not block; the child exits, and the
\* consumer drops the stream, when they choose to.
NextExec ==
    \/ New
    \/ \E self \in Clients, args \in ExecNoisyArgLists :
          CommandWithStreamingOutput(self, args, FALSE)
    \/ ExecChildWrite
    \/ \E pid \in 1..MaxCalls : ChildExit(pid, 0)
    \/ PollNext("none")
    \/ \E pid \in 1..MaxCalls : DropStream(pid)

SpecExecFair ==
    Init /\ [][NextExec]_vars /\ WF_vars(PollNext("none")) /\ WF_vars(ExecChildWrite)

(***************************************************************************)
(* Properties of ConsoleStream.                                             *)
(***************************************************************************)
\* The lines of everything a child wrote to a pipe before it exited: the
\* bytes before each newline, and what follows the last newline if anything.
RECURSIVE LinesOf(_)
LinesOf(bytes) ==
    IF bytes = <<>> THEN <<>>
    ELSE LET n == FirstNewline(bytes)
         IN IF n = 0 THEN <<bytes>>
            ELSE <<SubSeq(bytes, 1, n - 1)>> \o LinesOf(SubSeq(bytes, n + 1, Len(bytes)))

IsPrefix(a, b) == Len(a) <= Len(b) /\ SubSeq(b, 1, Len(a)) = a

\* The lines of the Ok items among those yielded, in order.
OkLines(yielded) ==
    LET oks == SelectSeq(yielded, LAMBDA item : item.ok)
    IN [i \in 1..Len(oks) |-> oks[i].line]

\* C14, the safety part: the lines a stdout-only stream has yielded are the
\* first lines its child wrote to stdout, in the order written, each once;
\* when it has yielded end-of-sequence the child has exited and the lines
\* yielded are all N lines written; and if no read failed, the items are
\* exactly these N lines.
C14_LinesInOrder ==
    (stream.pid # 0 /\ ~stream.combined_output)
        => LET written == LinesOf(pipes.stdout.written)
           IN /\ IsPrefix(OkLines(items), written)
              /\ stream.ended
                    => /\ at_eof(stream.pid)
                       /\ OkLines(items) = written
                       /\ ReadErrors = 0
                             => items = [i \in 1..Len(written) |-> OkItem(written[i])]

\* C14: a ConsoleStream over a child that writes N lines to stdout and then
\* exits yields these N lines as items, in the order written, none lost,
\* duplicated or reordered, and then end-of-sequence: the safety part above
\* holds always, and once the child has exited a consumer that keeps polling
\* is yielded end-of-sequence, unless it drops the stream first.
C14_LinesThenEnd ==
    /\ []C14_LinesInOrder
    /\ (stream.open /\ ~stream.combined_output /\ at_eof(stream.pid))
          ~> (stream.ended \/ ~stream.open)

\* C14: the child wrote the line "a" and an empty line and exited; the stream
\* yielded both in that order and then end-of-sequence.
C14_Witness ==
    /\ stream.open
    /\ ~stream.combined_output
    /\ pipes.stdout.written = <<97, Newline, Newline>>
    /\ items = <<OkItem(<<97>>), OkItem(<<>>)>>
    /\ stream.ended
    /\ lastPoll = "end"
    /\ procs[stream.pid].state = "exited"

\* C15: once a ConsoleStream has been dropped before it was exhausted, its
\* child is neither running nor an exited process nobody has reaped.
C15_DropReleasesChild ==
    (stream.pid # 0 /\ ~stream.open /\ ~stream.ended)
        => procs[stream.pid].state \notin {"running", "exited"}

\* The lines a pipe holds complete: the bytes before each of its newlines.
RECURSIVE CompleteLines(_)
CompleteLines(bytes) ==
    LET n == FirstNewline(bytes)
    IN IF n = 0 THEN <<>>
       ELSE <<SubSeq(bytes, 1, n - 1)>>
            \o CompleteLines(SubSeq(bytes, n + 1, Len(bytes)))

\* The lines written to a pipe so far: what follows the last newline is a
\* line only once the pipe is at end-of-file.
LinesWritten(pipe, eof) ==
    IF eof THEN LinesOf(pipe.written) ELSE CompleteLines(pipe.written)

\* z is x and y interleaved: every element of x and of y once, each of the
\* two in its own order.
RECURSIVE IsShuffle(_, _, _)
IsShuffle(z, x, y) ==
    IF z = <<>> THEN x = <<>> /\ y = <<>>
    ELSE \/ x # <<>> /\ Head(x) = Head(z) /\ IsShuffle(Tail(z), Tail(x), y)
         \/ y # <<>> /\ Head(y) = Head(z) /\ IsShuffle(Tail(z), x, Tail(y))

\* C16: with stderr merging enabled, in every interleaving of the child's
\* writes and the consumer's polls, the lines yielded are first lines written
\* to stdout and first lines written to stderr interleaved: each yielded once,
\* none before it was written, those of one pipe in the order written; and
\* end-of-sequence is yielded only when both pipes are drained at end-of-file,
\* every line of both having been yielded.
C16_MergedLines ==
    (stream.pid # 0 /\ stream.combined_output)
        => LET eof == at_eof(stream.pid)
               out == LinesWritten(pipes.stdout, eof)
               err == LinesWritten(pipes.stderr, eof)
           IN /\ \E i \in 0..Len(out), j \in 0..Len(err) :
                    IsShuffle(OkLines(items), SubSeq(out, 1, i), SubSeq(err, 1, j))
              /\ stream.ended
                    => /\ eof
                       /\ \A name \in PipeNames :
                             pipes[name].read = Len(pipes[name].written)
                       /\ IsShuffle(OkLines(items), out, err)

\* C16: the child wrote "a" and an empty line to stdout and "b" to stderr;
\* the merged stream yielded the stderr line between the two stdout lines,
\* and then end-of-sequence.
C16_Witness ==
    /\ stream.open
    /\ stream.combined_output
    /\ pipes.stdout.written = <<97, Newline, Newline>>
    /\ pipes.stderr.written = <<98, Newline>>
    /\ items = <<OkItem(<<97>>), OkItem(<<98>>), OkItem(<<>>)>>
    /\ stream.ended
    /\ lastPoll = "end"

\* The pipes a stream reads: both under combined_output, stdout otherwise.
PipesRead(s) == IF s.combined_output THEN PipeNames ELSE {"stdout"}

\* C17: a poll in which the read of a pipe fails with an I/O error yields that
\* error as an item and does not yield end-of-sequence; no item yielded is
\* dropped afterwards; and end-of-sequence has been yielded only when the
\* child's pipes are at end-of-file and every pipe the stream reads is drained.
C17_ReadErrorIsItem ==
    [][/\ \A failing \in PipeNames :
             PollNext(failing)
                => /\ items' = Append(items, ErrItem)
                   /\ lastPoll' = "item"
                   /\ stream'.ended = stream.ended
       /\ stream'.pid = stream.pid => IsPrefix(items, items')
       /\ (stream'.pid # 0 /\ stream'.ended)
             => /\ procs'[stream'.pid].state # "running"
                /\ \A name \in PipesRead(stream') :
                      pipes'[name].read = Len(pipes'[name].written)]_vars

\* C17: a read failed between the first and the last line; the stream yielded
\* the line, the error and the other line, and then end-of-sequence.
C17_Witness ==
    /\ stream.open
    /\ stream.ended
    /\ lastPoll = "end"
    /\ Len(items) = 3
    /\ items[1].ok
    /\ items[2] = ErrItem
    /\ items[3].ok
    /\ pipes.stdout.written # <<>>
    /\ pipes.stderr.written # <<>>

\* The process handle of child pid is released: no Child value holds it, and
\* the process is neither running nor an exited process nobody has reaped.
HandleReleased(pid) ==
    /\ procs[pid].handle = "dropped"
    /\ procs[pid].state \notin {"running", "exited"}

\* Every invocation or stream in a terminal state has released the process
\* handle of its child: a command that returned (Completed, TimedOut; after
\* SpawnFailed there is no child), a stream that yielded end-of-sequence
\* (Exhausted) and a stream that was dropped (Abandoned).
TerminalReleased ==
    /\ (pc = "returned" /\ call.op = "command" /\ call.spawn = "spawned")
          => HandleReleased(CurrentPid)
    /\ (stream.pid # 0 /\ (stream.ended \/ ~stream.open))
          => HandleReleased(stream.pid)

\* No re-entry: a stream that has yielded end-of-sequence yields
\* end-of-sequence and no item at every later poll; a process is spawned only
\* by a new invocation; and a process that is no longer running never runs
\* again.
NoReentry ==
    /\ (stream.ended /\ stream'.pid = stream.pid)
          => /\ stream'.ended
             /\ items' = items
             /\ \A failing \in PipeNames \cup {"none"} :
                   PollNext(failing) => lastPoll' = "end"
    /\ Len(procs') >= Len(procs)
    /\ Len(procs') > Len(procs)
          => Len(procs') = Len(procs) + 1 /\ nCalls' = nCalls + 1
    /\ \A pid \in 1..Len(procs) :
          /\ procs'[pid].program = procs[pid].program
          /\ procs'[pid].args = procs[pid].args
          /\ procs[pid].state # "running" => procs'[pid].state # "running"

\* C18: no re-entry (once a ConsoleStream has yielded end-of-sequence every
\* later poll yields end-of-sequence and never a new item, and no operation
\* spawns again or restarts the child of an existing stream or of a finished
\* command), and every terminal state has released the process handle.
C18_NoReentryHandleReleased == [][NoReentry /\ TerminalReleased']_vars

\* C18, the part about re-entry alone.
C18_NoReentry == [][NoReentry]_vars

\* C19: a line a child has written to its stdout is eventually yielded by the
\* stdout-only ConsoleStream that netns exec returns, to a consumer that keeps
\* polling and does not drop the stream, whether or not the child ever exits:
\* once the pipe holds n complete lines, n lines get yielded.
C19_LineYieldedWhileRunning ==
    \A n \in 1..MaxStreamOut :
       (/\ stream.open
        /\ ~stream.combined_output
        /\ Len(CompleteLines(pipes.stdout.written)) >= n)
          ~> (Len(OkLines(items)) >= n \/ ~stream.open)

\* C19: the stream has yielded the line its child wrote, and the child is
\* still running.
C19_Witness ==
    /\ stream.open
    /\ ~stream.combined_output
    /\ procs[stream.pid].state = "running"
    /\ procs[stream.pid].program = <<"/usr/bin", "stdbuf">>
    /\ pipes.stdout.written = <<97, Newline>>
    /\ items = <<OkItem(<<97>>)>>

(***************************************************************************)
(* A caller runs link and address sub-commands with every configuration.    *)
(***************************************************************************)
NextFacade ==
    \/ New
    \/ \E configuration \in LinkDeleteConfigurations : LinkDelete(configuration)
    \/ \E configuration \in LinkShowConfigurations : LinkShow(configuration)
    \/ \E configuration \in AddressAddConfigurations : AddressAdd(configuration)
    \/ \E pid \in 1..MaxCalls, status \in ExitStatuses : ChildExit(pid, status)
    \/ TimerElapse
    \/ CommandResume(FALSE)
    \/ CallerContinues

SpecFacade == Init /\ [][NextFacade]_vars

(***************************************************************************)
(* A caller runs link set, link show, address add and address flush with    *)
(* configurations whose fields are present and absent in many combinations. *)
(***************************************************************************)
MaxConfigured == 1  \* sub-commands run with a configuration

NextSerialize ==
    \/ New
    \/ \E configuration \in LinkSetConfigurations :
          nCalls < MaxConfigured /\ LinkSet(configuration)
    \/ \E configuration \in LinkShowConfigurations :
          nCalls < MaxConfigured /\ LinkShow(configuration)
    \/ \E configuration \in AddressAddConfigurations :
          nCalls < MaxConfigured /\ AddressAdd(configuration)
    \/ \E configuration \in AddressFlushConfigurations :
          nCalls < MaxConfigured /\ AddressFlush(configuration)
    \/ \E pid \in 1..MaxCalls : ChildExit(pid, 0)
    \/ TimerElapse
    \/ CommandResume(FALSE)
    \/ CallerContinues

SpecSerialize == Init /\ [][NextSerialize]_vars

\* The words an enumerated none variant could leave in the arguments: its
\* own name, or the name of the field that holds it.
NoneWords == {"None", "none", "flags", "device"}

\* C20: an enumerated none variant contributes no argument, not its own name
\* and not the name of its field: address add with flags passes one keyword
\* per flag that is not None, in order, after local and dev; and serializing
\* a configuration whose device is LinkDeviceOrGroup::None, the Default of
\* that field, returns CommandOptionsSerializationError to the caller of link
\* delete and of link show and spawns nothing.
C20_NoneVariants ==
    [][/\ \A configuration \in AddressAddConfigurations :
             (AddressAdd(configuration) /\ call'.spawn = "spawned")
                => LET a == procs'[Len(procs')].args
                       flags == IF configuration.flags.some
                                THEN configuration.flags.val ELSE <<>>
                       given == SelectSeq(flags, LAMBDA f : f # "None")
                   IN /\ \A i \in 1..Len(a) : a[i] \notin NoneWords
                      /\ Len(a) = 7 + Len(given)
                      /\ \A i \in 1..Len(given) :
                            a[7 + i] = (IF given[i] = "HomeAddress" THEN "home"
                                        ELSE "nodad")
       /\ \A configuration \in LinkDeleteConfigurations :
             (LinkDelete(configuration)
              /\ configuration.device = LinkDeviceOrGroup_None)
                => /\ result' = Err("CommandOptionsSerializationError")
                   /\ procs' = procs
       /\ \A configuration \in LinkShowConfigurations :
             (/\ LinkShow(configuration)
              /\ configuration.some
              /\ configuration.val.device = LinkDeviceOrGroup_None)
                => /\ result' = Err("CommandOptionsSerializationError")
                   /\ procs' = procs]_vars

\* The sequences of a sequence, one after the other
RECURSIVE Concat(_)
Concat(groups) ==
    IF groups = <<>> THEN <<>> ELSE Head(groups) \o Concat(Tail(groups))

\* The tokens a field adds when it is present, and none when it is absent
Present(option, tokens) == IF option.some THEN tokens ELSE <<>>

\* The token groups of a LinkSetConfiguration, in the order its fields are
\* declared: device, state, arp, txqueuelen, name, xdp, type
LinkSetGroups(cfg) ==
    <<<<"dev", cfg.device.device>>,
      Present(cfg.state, <<IF cfg.state.val = "Up" THEN "up" ELSE "down">>),
      Present(cfg.arp, <<"arp", IF cfg.arp.val = TRUE THEN "on" ELSE "off">>),
      Present(cfg.transmit_queue_length,
              <<"txqueuelen", ToString(cfg.transmit_queue_length.val)>>),
      Present(cfg.new_name, <<"name", cfg.new_name.val>>),
      Present(cfg.express_data_path,
              ExpressDataPathConfiguration_serialize(cfg.express_data_path.val).val),
      Present(cfg.link_type, <<"type", cfg.link_type.val>>)>>

\* The token groups of an AddressFlushOrSaveConfiguration, in the order its
\* fields are declared: dev, metric, flags, state
AddressFlushGroups(cfg) ==
    <<Present(cfg.device, <<"dev", cfg.device.val>>),
      Present(cfg.metric, <<"metric", ToString(cfg.metric.val)>>),
      Present(cfg.flags, Vec_AddressConfigurationFlag_serialize(cfg.flags.val).val),
      Present(cfg.state, <<IF cfg.state.val = "Up" THEN "up" ELSE "down">>)>>

\* C21: the arguments a configuration is serialized into are the token
\* groups of its present fields one after the other in the order the fields
\* are declared, whichever fields are set, with nothing reordered or removed;
\* an absent optional field adds nothing, so a configuration with every
\* field absent adds no argument: link set and address flush pass ip exactly
\* the sub-command words followed by these tokens.
C21_DeclarationOrder ==
    [][(pc = "idle" /\ pc' = "await")
        => /\ \A configuration \in LinkSetConfigurations :
                 LinkSet(configuration)
                    => /\ call'.args
                            = <<"link", "set">>
                              \o Concat(LinkSetGroups(configuration))
                       /\ procs'[Len(procs')].args = concat_args(client, call'.args)
           /\ \A configuration \in AddressFlushConfigurations :
                 AddressFlush(configuration)
                    => /\ call'.args
                            = <<"address", "flush">>
                              \o (IF configuration.some
                                  THEN Concat(AddressFlushGroups(configuration.val))
                                  ELSE <<>>)
                       /\ (configuration = Some(AddressFlushOrSaveConfiguration_default)
                             => call'.args = <<"address", "flush">>)
                       /\ procs'[Len(procs')].args
                            = concat_args(client, call'.args)]_vars

\* C21: link set has spawned ip for a configuration in which state,
\* txqueuelen, name and xdp are absent and arp and type, declared on either
\* side of them, are present.
C21_Witness ==
    /\ pc = "await"
    /\ call.args = <<"link", "set", "dev", "eth0", "arp", "off", "type", "dummy">>
    /\ procs[CurrentPid].state = "running"
    /\ procs[CurrentPid].args = concat_args(client, call.args)

\* C23: the state of a LinkShowConfiguration adds nothing to the arguments,
\* whether it is unset, Up or Down: link show passes no state word, and link
\* show of a configuration that differs only in state takes the same step,
\* with the same arguments and the same child.
C23_StateNotSerialized ==
    [][(pc = "idle" /\ pc' = "await")
        => \A configuration \in LinkShowConfigurations :
              (configuration.some /\ LinkShow(configuration))
                 => /\ \A i \in 1..Len(call'.args) :
                          call'.args[i] \notin {"state", "up", "down", "Up", "Down"}
                    /\ \A state \in {None} \cup {Some(v) : v \in LinkStatuses} :
                          LinkShow(Some([configuration.val EXCEPT !.state = state]))]_vars

\* C23: link show has spawned ip for a configuration of a device and a
\* master, whatever its state: the arguments hold the device and the master
\* and nothing else.
C23_Witness ==
    /\ pc = "await"
    /\ call.args = <<"link", "show", "dev", "eth0", "master", "br0">>
    /\ procs[CurrentPid].state = "running"
    /\ procs[CurrentPid].args = concat_args(client, call.args)

\* The flags of a collection that are not None, in the order of the collection
Given(flags) == SelectSeq(IF flags.some THEN flags.val ELSE <<>>, LAMBDA f : f # "None")

\* C24: a collection of flags adds one token for each flag that is not None,
\* in the order of the collection, each the keyword of its variant, and
\* nothing for a flag that is None: address flush passes them between the
\* tokens of metric and of state, address add after those of dev; and
\* different variants other than None have different keywords.
C24_FlagTokens ==
    [][(pc = "idle" /\ pc' = "await")
        => /\ \A configuration \in AddressFlushConfigurations :
                 (configuration.some /\ AddressFlush(configuration))
                    => LET cfg == configuration.val
                           given == Given(cfg.flags)
                           before == 2 + (IF cfg.device.some THEN 2 ELSE 0)
                                       + (IF cfg.metric.some THEN 2 ELSE 0)
                           after == IF cfg.state.some THEN 1 ELSE 0
                       IN /\ Len(call'.args) = before + Len(given) + after
                          /\ \A i \in 1..Len(given) :
                                call'.args[before + i]
                                   = AddressConfigurationFlag_to_string(given[i])
           /\ \A configuration \in AddressAddConfigurations :
                 AddressAdd(configuration)
                    => LET given == Given(configuration.flags)
                       IN /\ Len(call'.args) = 6 + Len(given)
                          /\ \A i \in 1..Len(given) :
                                call'.args[6 + i]
                                   = AddressAddConfigurationFlag_to_string(given[i])
           /\ \A v, w \in AddressConfigurationFlag \ {"None"} :
                 v # w => AddressConfigurationFlag_to_string(v)
                             # AddressConfigurationFlag_to_string(w)
           /\ \A v, w \in AddressAddConfigurationFlag \ {"None"} :
                 v # w => AddressAddConfigurationFlag_to_string(v)
                             # AddressAddConfigurationFlag_to_string(w)]_vars

\* C24: address flush has spawned ip for the flags NotTentative and
\* Permanent, in that order.
C24_Witness ==
    /\ pc = "await"
    /\ call.args = <<"address", "flush", "-tentative", "permanent">>
    /\ procs[CurrentPid].state = "running"
    /\ procs[CurrentPid].args = concat_args(client, call.args)

SerializedFirst(words, serialized) ==
    IF serialized.kind = "Ok"
    THEN /\ call'.args = words \o serialized.args
         /\ Len(procs') <= Len(procs) + 1
    ELSE /\ result' = Err("CommandOptionsSerializationError")
         /\ pc' = "returned"
         /\ procs' = procs
         /\ spawnAttempts' = spawnAttempts

\* C28: link delete and link show serialize the configuration before they
\* spawn anything: when serializing fails the call returns
\* CommandOptionsSerializationError and no child is spawned, and a child that
\* is spawned is given the serialized arguments.
C28_SerializationFailureIsError ==
    [][(pc = "idle" /\ pc' # "idle")
        => /\ \A configuration \in LinkDeleteConfigurations :
                 LinkDelete(configuration)
                    => SerializedFirst(
                           <<"link", "delete">>,
                           into_args(BooleanType_OnOff,
                                     LinkDeleteConfiguration_serialize(configuration)))
           /\ \A configuration \in LinkShowConfigurations \ {None} :
                 LinkShow(configuration)
                    => SerializedFirst(
                           <<"link", "show">>,
                           into_args(BooleanType_OnOff,
                                     LinkShowConfiguration_serialize(
                                         configuration.val)))]_vars

\* The tokens the claim gives for an ExpressDataPathConfiguration: xdp off
\* for Off; else the keyword of the variant, object or pinned, the path, then
\* section and the section name if one is set, then verbose if it is set
ExpressDataPathTokens(x) ==
    IF x.kind = "Off" THEN <<"xdp", "off">>
    ELSE <<IF x.variant = "Default" THEN "xdp" ELSE "xdpdrv",
           IF x.kind = "Object" THEN "object" ELSE "pinned",
           x.path>>
         \o (IF x.section_name.some THEN <<"section", x.section_name.val>> ELSE <<>>)
         \o (IF x.verbose THEN <<"verbose">> ELSE <<>>)

\* C29: for every ExpressDataPathConfiguration the number of elements
\* declared to serialize_seq is the number of elements serialized, and the
\* tokens are in the order the claim gives: link set with an xdp
\* configuration passes exactly the declared number of tokens between those
\* of name and those of type, and they are these tokens.
C29_DeclaredIsEmitted ==
    [][(pc = "idle" /\ pc' = "await")
        => \A configuration \in LinkSetConfigurations :
              (configuration.express_data_path.some /\ LinkSet(configuration))
                 => LET x == configuration.express_data_path.val
                        before == 4 + (IF configuration.new_name.some THEN 2 ELSE 0)
                        after == IF configuration.link_type.some THEN 2 ELSE 0
                        emitted == Len(call'.args) - before - after
                    IN /\ SubSeq(call'.args, before + 1, before + emitted)
                            = ExpressDataPathTokens(x)
                       /\ ExpressDataPathConfiguration_elements(x) = emitted]_vars

\* C30: with stderr not merged, what the child writes to stderr is dropped
\* and does not hold the child up: no item of the stream holds a byte of
\* stderr, and as long as the stream is held and the child runs, the line the
\* child is to write to stdout after its writes to stderr is eventually
\* yielded, however many bytes it writes to stderr first, more than the pipe
\* holds included.
C30_StderrDoesNotBlock ==
    /\ [](\A i \in 1..Len(items) :
             \A j \in 1..Len(items[i].line) : items[i].line[j] # 98)
    /\ (stream.open /\ ~stream.combined_output)
          ~> \/ <<97>> \in {OkLines(items)[i] : i \in 1..Len(OkLines(items))}
             \/ ~stream.open
             \/ procs[stream.pid].state # "running"

====
